---- MODULE Spec2Model ----
(***************************************************************************)
(* A model of EtzyngerTree (src/src/lib.rs): an N-ary tree stored in a     *)
(* flat array, child c of the node at position p living at p*K + c + 1,    *)
(* together with the handler-driven walks of src/src/traversal/walk.rs.    *)
(***************************************************************************)
EXTENDS Integers, Sequences, FiniteSets

\* ---------------------------------------------------------------- bounds
\* largest branching factor the tree is constructed with
MaxK == 2
\* largest array position a write may address
MaxIndex == 3
\* the stored values are 1..MaxVal
MaxVal == 2
\* largest number of nested NodeMut borrows alive at once
MaxHandles == 2

\* largest position the index arithmetic is applied to
MaxPos == 30
\* largest number of handler invocations counted in a walk
MaxCalls == 4

\* Option::None of a slot, and the values a slot may hold
None == 0
Values == 1..MaxVal
OptValues == Values \cup {None}

\* Option::None of an index / of a handle
NoIndex == -1
NoNode == -1

VARIABLES
    nodes,                   \* Vec<Option<N>>; position i is nodes[i + 1]
    max_children_per_node,   \* usize, fixed by new()
    len,                     \* usize
    handles,                 \* chain of live NodeMut borrows, innermost last
    last,                    \* the operation that ran last, its inputs and outcome
    walk,                    \* the walk in progress: entries, levels, position in the loop
    calc,                    \* the last application of the index arithmetic
    iter                     \* the iterator alive over the tree and what it yields

treeVars == <<nodes, max_children_per_node, len>>
vars == <<nodes, max_children_per_node, len, handles, last, walk, calc, iter>>

\* ------------------------------------------------------- index arithmetic
child_index(k, parent, child) == (parent * k) + child + 1

\* a parent_index that forgets the root slot in front of the children
parent_index_without_offset(k, child) ==
    IF child = 0 THEN NoIndex ELSE child \div k

parent_index(k, child) ==
    IF child = 0 THEN NoIndex ELSE (child - 1) \div k

\* ------------------------------------------------------------- slot store
\* self.nodes.get(index) flattened: the value of the slot, None when the
\* index is outside the array or the slot is empty
Get(ns, index) ==
    IF index >= 0 /\ index < Len(ns) THEN ns[index + 1] ELSE None

node(ns, index) ==
    IF Get(ns, index) # None THEN index ELSE NoNode

node_mut(ns, index) ==
    IF Get(ns, index) # None THEN index ELSE NoNode

value(ns, index) == ns[index + 1]

parent(ns, k, child) ==
    IF parent_index(k, child) = NoIndex THEN NoNode
    ELSE node(ns, parent_index(k, child))

parent_mut(ns, k, child) ==
    IF parent_index(k, child) # NoIndex
    THEN node_mut(ns, parent_index(k, child))
    ELSE NoNode

\* a child lookup that takes any slot of the array for a node
child_of_any_slot(ns, k, p, c) ==
    IF child_index(k, p, c) < Len(ns) THEN child_index(k, p, c) ELSE NoNode

child(ns, k, p, c) == node(ns, child_index(k, p, c))

child_mut(ns, k, p, c) == node_mut(ns, child_index(k, p, c))

\* ------------------------------------------------- depth first, post order
RECURSIVE DepthFirstPostOrder(_, _, _)
RECURSIVE ChildrenPostOrder(_, _, _, _)

\* the subtrees of the children c, c+1, .. of index, vacant children pruned
ChildrenPostOrder(ns, k, index, c) ==
    IF c >= k THEN <<>>
    ELSE (IF child(ns, k, index, c) # NoNode
          THEN DepthFirstPostOrder(ns, k, child_index(k, index, c))
          ELSE <<>>)
         \o ChildrenPostOrder(ns, k, index, c + 1)

\* positions yielded by DepthFirstIterator::new(tree, Some(node), PostOrder)
DepthFirstPostOrder(ns, k, index) ==
    ChildrenPostOrder(ns, k, index, 0) \o <<index>>

\* --------------------------------------------------------------- set_value
\* a removal loop that counts a slot down whether or not it held a value
RECURSIVE RemoveIndicesUnconditionally(_, _, _)
RemoveIndicesUnconditionally(ns, n, indices) ==
    IF indices = <<>> THEN [nodes |-> ns, len |-> n]
    ELSE RemoveIndicesUnconditionally([ns EXCEPT ![Head(indices) + 1] = None],
                                      n - 1, Tail(indices))

\* the loop over indices_to_remove
RECURSIVE RemoveIndices(_, _, _)
RemoveIndices(ns, n, indices) ==
    IF indices = <<>> THEN [nodes |-> ns, len |-> n]
    ELSE LET index_to_remove == Head(indices)
             old_value == ns[index_to_remove + 1]
         IN RemoveIndices([ns EXCEPT ![index_to_remove + 1] = None],
                          IF old_value # None THEN n - 1 ELSE n,
                          Tail(indices))

\* a set_value that grows the array one slot past the index written
set_value_grows_past_index(ns, k, n, index, new_value) ==
    LET grown == IF index >= Len(ns)
                 THEN ns \o [i \in 1..(index + 2 - Len(ns)) |-> None]
                 ELSE ns
        old_value == grown[index + 1]
        replaced == [grown EXCEPT ![index + 1] = new_value]
    IN IF old_value # None
       THEN IF new_value = None
            THEN LET r == RemoveIndices(replaced, n - 1,
                                        DepthFirstPostOrder(replaced, k, index))
                 IN [nodes |-> r.nodes, len |-> r.len, handle |-> index]
            ELSE [nodes |-> replaced, len |-> n, handle |-> index]
       ELSE [nodes |-> replaced,
             len |-> IF new_value # None THEN n + 1 ELSE n,
             handle |-> index]

\* a set_value that counts every present write as a new node
set_value_counts_overwrite(ns, k, n, index, new_value) ==
    LET grown == IF index >= Len(ns)
                 THEN ns \o [i \in 1..(index + 1 - Len(ns)) |-> None]
                 ELSE ns
        old_value == grown[index + 1]
        replaced == [grown EXCEPT ![index + 1] = new_value]
    IN IF old_value # None /\ new_value = None
       THEN LET r == RemoveIndices(replaced, n - 1,
                                   DepthFirstPostOrder(replaced, k, index))
            IN [nodes |-> r.nodes, len |-> r.len, handle |-> index]
       ELSE [nodes |-> replaced,
             len |-> IF new_value # None THEN n + 1 ELSE n,
             handle |-> index]

set_value(ns, k, n, index, new_value) ==
    LET grown == IF index >= Len(ns)
                 THEN ns \o [i \in 1..(index + 1 - Len(ns)) |-> None]
                 ELSE ns
        new_value_is_none == new_value = None
        old_value == grown[index + 1]
        replaced == [grown EXCEPT ![index + 1] = new_value]
    IN IF old_value # None
       THEN IF new_value_is_none
            THEN LET indices_to_remove ==
                         DepthFirstPostOrder(replaced, k, index)
                     r == RemoveIndices(replaced, n - 1, indices_to_remove)
                 IN [nodes |-> r.nodes, len |-> r.len, handle |-> index]
            ELSE [nodes |-> replaced, len |-> n, handle |-> index]
       ELSE IF ~new_value_is_none
            THEN [nodes |-> replaced, len |-> n + 1, handle |-> index]
            ELSE [nodes |-> replaced, len |-> n, handle |-> index]

\* the outcome of a call: a panic leaves the tree as it was
RangeError == [panic |-> TRUE]

\* a set_child_value without its assertion
set_child_value_unchecked(ns, k, n, p, c, new_value) ==
    set_value(ns, k, n, child_index(k, p, c), new_value)

set_child_value(ns, k, n, p, c, new_value) ==
    IF ~(c < k) THEN RangeError
    ELSE set_value(ns, k, n, child_index(k, p, c), new_value)

\* a clear that empties the root slot but keeps the array
clear_without_truncate(ns) == [nodes |-> [ns EXCEPT ![1] = None], len |-> 0]

\* is_empty(): self.len() == 0
is_empty(n) == n = 0

\* root() and root_mut(): the node of position 0, if it holds a value
root(ns) == node(ns, 0)
root_mut(ns) == node_mut(ns, 0)

\* clear(): truncate(1), nodes[0] = None, len = 0
clear(ns) == [nodes |-> [SubSeq(ns, 1, 1) EXCEPT ![1] = None], len |-> 0]

\* ------------------------------------------------------------------ state
\* child, value: the arguments of the operation; target: the position it
\* computes or acts on; handle: the Node or NodeMut it returns
Op(name, c, v, target, result, handle) ==
    [op |-> name, child |-> c, value |-> v,
     target |-> target, result |-> result, handle |-> handle]

NoWalk == [kind |-> "none"]
NoCalc == [fn |-> "none"]
NoIter == [kind |-> "none"]

Init ==
    /\ max_children_per_node \in 1..MaxK
    /\ nodes = <<None>>
    /\ len = 0
    /\ handles = <<>>
    /\ last = Op("new", NoIndex, None, NoIndex, "ok", NoNode)
    /\ walk = NoWalk
    /\ calc = NoCalc
    /\ iter = NoIter

Top == handles[Len(handles)]
Pop == SubSeq(handles, 1, Len(handles) - 1)

\* tree.set_root_value(value): needs the tree unborrowed
SetRootValue(v) ==
    /\ walk = NoWalk
    /\ iter = NoIter
    /\ UNCHANGED <<walk, calc, iter>>
    /\ handles = <<>>
    /\ LET r == set_value(nodes, max_children_per_node, len, 0, v)
       IN /\ nodes' = r.nodes
          /\ len' = r.len
          /\ handles' = <<r.handle>>
          /\ last' = Op("set_root_value", NoIndex, v, 0, "ok", r.handle)
    /\ UNCHANGED max_children_per_node

\* node_mut.set_child_value(c, value) on the innermost live handle
SetChildValue(c, v) ==
    /\ walk = NoWalk
    /\ iter = NoIter
    /\ UNCHANGED <<walk, calc, iter>>
    /\ handles # <<>>
    /\ Len(handles) < MaxHandles
    /\ child_index(max_children_per_node, Top, c) <= MaxIndex
    /\ LET r == set_child_value(nodes, max_children_per_node, len, Top, c, v)
       IN IF r = RangeError
          THEN /\ UNCHANGED <<nodes, len>>
               /\ handles' = <<>>
               /\ last' = Op("set_child_value", c, v, NoIndex,
                            "range_error", NoNode)
          ELSE /\ nodes' = r.nodes
               /\ len' = r.len
               /\ handles' = Append(handles, r.handle)
               /\ last' = Op("set_child_value", c, v, r.handle, "ok", r.handle)
    /\ UNCHANGED max_children_per_node

\* removal of the node of the innermost live handle, which is given up
Remove ==
    /\ walk = NoWalk
    /\ iter = NoIter
    /\ UNCHANGED <<walk, calc, iter>>
    /\ handles # <<>>
    /\ LET r == set_value(nodes, max_children_per_node, len, Top, None)
       IN /\ nodes' = r.nodes
          /\ len' = r.len
    /\ handles' = Pop
    /\ last' = Op("remove", NoIndex, None, Top, "ok", NoNode)
    /\ UNCHANGED max_children_per_node

\* tree.clear(): needs the tree unborrowed
Clear ==
    /\ walk = NoWalk
    /\ iter = NoIter
    /\ UNCHANGED <<walk, calc, iter>>
    /\ handles = <<>>
    /\ nodes' = clear(nodes).nodes
    /\ len' = clear(nodes).len
    /\ last' = Op("clear", NoIndex, None, NoIndex, "ok", NoNode)
    /\ UNCHANGED <<max_children_per_node, handles>>

\* the innermost handle goes out of scope
DropHandle ==
    /\ walk = NoWalk
    /\ iter = NoIter
    /\ UNCHANGED <<walk, calc, iter>>
    /\ handles # <<>>
    /\ handles' = Pop
    /\ last' = Op("drop", NoIndex, None, NoIndex, "ok", NoNode)
    /\ UNCHANGED treeVars

\* tree.root()
Root ==
    /\ walk = NoWalk
    /\ iter = NoIter
    /\ UNCHANGED <<walk, calc, iter>>
    /\ handles = <<>>
    /\ last' = Op("root", NoIndex, None, 0,
                  IF node(nodes, 0) = NoNode THEN "none" ELSE "ok",
                  node(nodes, 0))
    /\ UNCHANGED <<treeVars, handles>>

\* tree.root_mut()
RootMut ==
    /\ walk = NoWalk
    /\ iter = NoIter
    /\ UNCHANGED <<walk, calc, iter>>
    /\ handles = <<>>
    /\ handles' = IF node_mut(nodes, 0) = NoNode THEN <<>>
                  ELSE <<node_mut(nodes, 0)>>
    /\ last' = Op("root_mut", NoIndex, None, 0,
                  IF node_mut(nodes, 0) = NoNode THEN "none" ELSE "ok",
                  node_mut(nodes, 0))
    /\ UNCHANGED treeVars

\* navigation of the innermost handle to its parent: parent_mut
ToParent ==
    /\ walk = NoWalk
    /\ iter = NoIter
    /\ UNCHANGED <<walk, calc, iter>>
    /\ handles # <<>>
    /\ LET r == parent_mut(nodes, max_children_per_node, Top)
       IN /\ handles' = IF r = NoNode THEN handles
                        ELSE [handles EXCEPT ![Len(handles)] = r]
          /\ last' = Op("parent", NoIndex, None,
                        parent_index(max_children_per_node, Top),
                        IF r = NoNode THEN "none" ELSE "ok", r)
    /\ UNCHANGED treeVars

\* navigation of the innermost handle to a child: child_mut
ToChild(c) ==
    /\ walk = NoWalk
    /\ iter = NoIter
    /\ UNCHANGED <<walk, calc, iter>>
    /\ handles # <<>>
    /\ LET r == child_mut(nodes, max_children_per_node, Top, c)
       IN /\ handles' = IF r = NoNode THEN handles
                        ELSE [handles EXCEPT ![Len(handles)] = r]
          /\ last' = Op("child", c, None,
                        child_index(max_children_per_node, Top, c),
                        IF r = NoNode THEN "none" ELSE "ok", r)
    /\ UNCHANGED treeVars

Next ==
    \/ \E v \in OptValues : SetRootValue(v)
    \/ \E c \in 0..MaxK, v \in OptValues : SetChildValue(c, v)
    \/ Remove
    \/ Clear
    \/ DropHandle
    \/ Root
    \/ RootMut
    \/ ToParent
    \/ \E c \in 0..MaxK : ToChild(c)

Spec == Init /\ [][Next]_vars

\* ------------------------------------------- applying the index arithmetic
Calc(fn, p, c, out) == [fn |-> fn, parent |-> p, child |-> c, out |-> out]

\* tree.child_index(p, c)
ChildIndexCall(p, c) ==
    /\ calc' = Calc("child_index", p, c,
                    child_index(max_children_per_node, p, c))
    /\ UNCHANGED <<treeVars, handles, last, walk, iter>>

\* tree.parent_index(i)
ParentIndexCall(i) ==
    /\ calc' = Calc("parent_index", NoIndex, i,
                    parent_index(max_children_per_node, i))
    /\ UNCHANGED <<treeVars, handles, last, walk, iter>>

NextIndex ==
    \/ \E p \in 0..MaxPos, c \in 0..MaxK : ChildIndexCall(p, c)
    \/ \E i \in 0..MaxPos : ParentIndexCall(i)

SpecIndex == Init /\ [][NextIndex]_vars

\* ------------------------------------------------------------------ walks
\* Entry / EntryMut: Occupied(node at pos) or Vacant(pos)
Entry(pos, occupied) == [pos |-> pos, occupied |-> occupied]

\* WalkAction
Stop == [tag |-> "Stop", index |-> NoIndex]
Parent == [tag |-> "Parent", index |-> NoIndex]
Child(index) == [tag |-> "Child", index |-> index]

\* the answers a handler can give: Child carries any usize, also one that is
\* no child slot of the tree
WalkActions == {Stop, Parent} \cup {Child(c) : c \in 0..MaxK}

\* entry.parent(): the parent node, if there is one
entry_parent(ns, k, e) == parent(ns, k, e.pos)

\* node.child_entry(index) and node_mut.to_child_entry(index): a range error
\* for an index that is no child slot, else the entry of that child
child_entry(ns, k, p, index) ==
    IF ~(index < k) THEN RangeError
    ELSE Entry(child_index(k, p, index), child(ns, k, p, index) # NoNode)

\* entry_mut.to_parent(): Ok(parent node) or Err(the entry itself)
to_parent(ns, k, e) ==
    IF parent_mut(ns, k, e.pos) # NoNode
    THEN [ok |-> TRUE, entry |-> Entry(parent_mut(ns, k, e.pos), TRUE)]
    ELSE [ok |-> FALSE, entry |-> e]

\* a position an entry can be obtained for by navigating down from the root
RECURSIVE Navigable(_, _, _)
Navigable(ns, k, p) ==
    \/ p = 0
    \/ /\ Get(ns, parent_index(k, p)) # None
       /\ Navigable(ns, k, parent_index(k, p))

\* the count of handler invocations is kept only while every answer was Parent
NoCount == -1

\* action: the last answer of the handler; parents: the number of handler
\* invocations so far if each was answered Parent, NoCount otherwise
Walking(kind, start, current, levels, pc, action, parents) ==
    [kind |-> kind, start |-> start, current |-> current, levels |-> levels,
     pc |-> pc, action |-> action, parents |-> parents]

\* entry.walk(handler) is called on the entry at p
WalkBegin(p) ==
    /\ walk = NoWalk
    /\ handles = <<>>
    /\ Navigable(nodes, max_children_per_node, p)
    /\ LET e == Entry(p, Get(nodes, p) # None)
       IN walk' = Walking("shared", e, e, 0, "handler", Stop, 0)
    /\ last' = Op("walk", NoIndex, None, NoIndex, "ok", NoNode)
    /\ UNCHANGED <<treeVars, handles, calc, iter>>

\* node_mut.walk(handler) with the innermost live handle: the handle is
\* borrowed as a Node and wrapped as an Occupied entry
WalkBeginAtHandle ==
    /\ walk = NoWalk
    /\ handles # <<>>
    /\ LET e == Entry(Top, TRUE)
       IN walk' = Walking("shared", e, e, 0, "handler", Stop, 0)
    /\ last' = Op("walk", NoIndex, None, NoIndex, "ok", NoNode)
    /\ UNCHANGED <<treeVars, handles, calc, iter>>

\* a loop of walk that resolves a child of a vacant entry as well
WalkStepThroughVacant(a) ==
    /\ walk.kind = "shared"
    /\ walk.pc = "handler"
    /\ (a.tag = "Parent" /\ walk.parents # NoCount) => walk.parents < MaxCalls
    /\ LET k == max_children_per_node
           current == walk.current
           parents == IF a.tag = "Parent" /\ walk.parents # NoCount
                      THEN walk.parents + 1 ELSE NoCount
           go(e) == Walking("shared", walk.start, e, 0, "handler", a, parents)
           break == Walking("shared", walk.start, current, 0, "returned", a,
                            parents)
           unwind == Walking("shared", walk.start, current, 0, "unwound", a,
                             parents)
       IN walk' =
            CASE a.tag = "Stop" -> break
              [] a.tag = "Parent" ->
                    IF entry_parent(nodes, k, walk.start) # NoNode
                    THEN go(Entry(entry_parent(nodes, k, walk.start), TRUE))
                    ELSE break
              [] a.tag = "Child" ->
                    IF child_entry(nodes, k, current.pos, a.index) = RangeError
                    THEN unwind
                    ELSE go(child_entry(nodes, k, current.pos, a.index))
    /\ UNCHANGED <<treeVars, handles, last, calc, iter>>

\* one turn of the loop of walk: the handler is shown current and answers a
WalkStep(a) ==
    /\ walk.kind = "shared"
    /\ walk.pc = "handler"
    /\ (a.tag = "Parent" /\ walk.parents # NoCount) => walk.parents < MaxCalls
    /\ LET k == max_children_per_node
           current == walk.current
           parents == IF a.tag = "Parent" /\ walk.parents # NoCount
                      THEN walk.parents + 1 ELSE NoCount
           go(e) == Walking("shared", walk.start, e, 0, "handler", a, parents)
           break == Walking("shared", walk.start, current, 0, "returned", a,
                            parents)
           unwind == Walking("shared", walk.start, current, 0, "unwound", a,
                             parents)
       IN walk' =
            CASE a.tag = "Stop" -> break
              [] a.tag = "Parent" ->
                    IF entry_parent(nodes, k, walk.start) # NoNode
                    THEN go(Entry(entry_parent(nodes, k, walk.start), TRUE))
                    ELSE break
              [] a.tag = "Child" ->
                    IF ~current.occupied THEN break
                    ELSE IF child_entry(nodes, k, current.pos, a.index)
                            = RangeError
                         THEN unwind
                         ELSE go(child_entry(nodes, k, current.pos, a.index))
    /\ UNCHANGED <<treeVars, handles, last, calc, iter>>

\* an ascent that stops one level short
RECURSIVE ascend_skipping_last(_, _, _, _)
ascend_skipping_last(ns, k, current, levels) ==
    IF levels <= 1 THEN [ok |-> TRUE, entry |-> current]
    ELSE IF to_parent(ns, k, current).ok
         THEN ascend_skipping_last(ns, k, to_parent(ns, k, current).entry,
                                   levels - 1)
         ELSE [ok |-> FALSE, entry |-> current]

\* the for loop after the handler loop: levels moves to the parent, each
\* expected to succeed
RECURSIVE ascend(_, _, _, _)
ascend(ns, k, current, levels) ==
    IF levels = 0 THEN [ok |-> TRUE, entry |-> current]
    ELSE IF to_parent(ns, k, current).ok
         THEN ascend(ns, k, to_parent(ns, k, current).entry, levels - 1)
         ELSE [ok |-> FALSE, entry |-> current]

\* entry_mut.walk_mut(handler) on a root or child entry reached from the root
WalkMutBegin(p) ==
    /\ walk = NoWalk
    /\ handles = <<>>
    /\ Navigable(nodes, max_children_per_node, p)
    /\ LET e == Entry(p, Get(nodes, p) # None)
       IN walk' = Walking("mut", e, e, 0, "handler", Stop, NoCount)
    /\ last' = Op("walk_mut", NoIndex, None, NoIndex, "ok", NoNode)
    /\ UNCHANGED <<treeVars, handles, calc, iter>>

\* EntryMut::from(node_mut).walk_mut(handler) with the innermost live handle
WalkMutBeginAtHandle ==
    /\ walk = NoWalk
    /\ handles # <<>>
    /\ LET e == Entry(Top, TRUE)
       IN walk' = Walking("mut", e, e, 0, "handler", Stop, NoCount)
    /\ last' = Op("walk_mut", NoIndex, None, NoIndex, "ok", NoNode)
    /\ UNCHANGED <<treeVars, handles, calc, iter>>

\* the handler writes a child of the occupied entry it is shown; the range
\* assertion of set_child_value unwinds the walk from inside the handler
WalkMutHandlerWrite(c, v) ==
    /\ walk.kind = "mut"
    /\ walk.pc = "handler"
    /\ walk.current.occupied
    /\ c < max_children_per_node
       => child_index(max_children_per_node, walk.current.pos, c) <= MaxIndex
    /\ LET r == set_child_value(nodes, max_children_per_node, len,
                                walk.current.pos, c, v)
       IN IF r = RangeError
          THEN /\ walk' = [walk EXCEPT !.pc = "unwound"]
               /\ UNCHANGED <<nodes, len>>
          ELSE /\ nodes' = r.nodes
               /\ len' = r.len
               /\ walk' = walk
    /\ UNCHANGED <<max_children_per_node, handles, last, calc, iter>>

\* a loop of walk_mut that lets Parent leave the start position
WalkMutStepWithoutScope(a) ==
    /\ walk.kind = "mut"
    /\ walk.pc = "handler"
    /\ LET k == max_children_per_node
           current == walk.current
           levels == walk.levels
           go(e, l) == Walking("mut", walk.start, e, l, "handler", a, NoCount)
           unwind == Walking("mut", walk.start, current, levels, "unwound", a,
                             NoCount)
           break(e) ==
               LET r == ascend(nodes, k, e, levels)
               IN Walking("mut", walk.start, r.entry, levels,
                          IF r.ok THEN "returned" ELSE "panicked", a,
                          NoCount)
       IN walk' =
            CASE a.tag = "Parent" ->
                    IF to_parent(nodes, k, current).ok
                    THEN go(to_parent(nodes, k, current).entry,
                            IF levels = 0 THEN 0 ELSE levels - 1)
                    ELSE break(to_parent(nodes, k, current).entry)
              [] a.tag = "Child" ->
                    IF ~current.occupied THEN break(current)
                    ELSE IF child_entry(nodes, k, current.pos, a.index)
                            = RangeError
                         THEN unwind
                         ELSE go(child_entry(nodes, k, current.pos, a.index),
                                 levels + 1)
              [] a.tag = "Stop" -> break(current)
    /\ UNCHANGED <<treeVars, handles, last, calc, iter>>

\* one turn of the loop of walk_mut, with the ascent when the loop ends
WalkMutStep(a) ==
    /\ walk.kind = "mut"
    /\ walk.pc = "handler"
    /\ LET k == max_children_per_node
           current == walk.current
           levels == walk.levels
           go(e, l) == Walking("mut", walk.start, e, l, "handler", a, NoCount)
           unwind == Walking("mut", walk.start, current, levels, "unwound", a,
                             NoCount)
           break(e) ==
               LET r == ascend(nodes, k, e, levels)
               IN Walking("mut", walk.start, r.entry, levels,
                          IF r.ok THEN "returned" ELSE "panicked", a,
                          NoCount)
       IN walk' =
            CASE a.tag = "Parent" ->
                    IF levels = 0 THEN break(current)
                    ELSE IF to_parent(nodes, k, current).ok
                         THEN go(to_parent(nodes, k, current).entry, levels - 1)
                         ELSE break(to_parent(nodes, k, current).entry)
              [] a.tag = "Child" ->
                    IF ~current.occupied THEN break(current)
                    ELSE IF child_entry(nodes, k, current.pos, a.index)
                            = RangeError
                         THEN unwind
                         ELSE go(child_entry(nodes, k, current.pos, a.index),
                                 levels + 1)
              [] a.tag = "Stop" -> break(current)
    /\ UNCHANGED <<treeVars, handles, last, calc, iter>>

\* the walk is over. A panic unwinds through the caller and drops every
\* handle, the one moved into walk_mut included; a walk_mut that returns gives
\* the caller the returned entry in place of the handle it was begun with;
\* walk only borrowed its handle
WalkEnd ==
    /\ walk # NoWalk
    /\ walk.pc \in {"returned", "panicked", "unwound"}
    /\ walk' = NoWalk
    /\ handles' =
         IF walk.pc # "returned" THEN <<>>
         ELSE IF walk.kind = "mut" /\ handles # <<>>
              THEN [handles EXCEPT ![Len(handles)] = walk.current.pos]
              ELSE handles
    /\ UNCHANGED <<treeVars, last, calc, iter>>

\* the tree operations together with shared walks
NextWalk ==
    \/ Next
    \/ \E p \in 0..MaxIndex : WalkBegin(p)
    \/ WalkBeginAtHandle
    \/ \E a \in WalkActions : WalkStep(a)
    \/ WalkEnd

SpecWalk == Init /\ [][NextWalk]_vars

\* the tree operations together with exclusive walks
NextWalkMut ==
    \/ Next
    \/ \E p \in 0..MaxIndex : WalkMutBegin(p)
    \/ WalkMutBeginAtHandle
    \/ \E c \in 0..MaxK, v \in OptValues : WalkMutHandlerWrite(c, v)
    \/ \E a \in WalkActions : WalkMutStep(a)
    \/ WalkEnd

SpecWalkMut == Init /\ [][NextWalkMut]_vars

\* -------------------------------------------------------------- iterators
RECURSIVE DepthFirstPreOrder(_, _, _)
RECURSIVE ChildrenPreOrder(_, _, _, _)

\* the subtrees of the children c, c+1, .. of index, vacant children pruned
ChildrenPreOrder(ns, k, index, c) ==
    IF c >= k THEN <<>>
    ELSE (IF child(ns, k, index, c) # NoNode
          THEN DepthFirstPreOrder(ns, k, child_index(k, index, c))
          ELSE <<>>)
         \o ChildrenPreOrder(ns, k, index, c + 1)

\* positions yielded by DepthFirstIterator::new(tree, Some(node), PreOrder)
DepthFirstPreOrder(ns, k, index) ==
    <<index>> \o ChildrenPreOrder(ns, k, index, 0)

\* the child nodes of index in the slots c, c+1, ..
RECURSIVE ChildNodes(_, _, _, _)
ChildNodes(ns, k, index, c) ==
    IF c >= k THEN <<>>
    ELSE (IF child(ns, k, index, c) # NoNode
          THEN <<child(ns, k, index, c)>>
          ELSE <<>>)
         \o ChildNodes(ns, k, index, c + 1)

\* positions yielded by a BreadthFirstIterator with these nodes queued
RECURSIVE BreadthFirst(_, _, _)
BreadthFirst(ns, k, queue) ==
    IF queue = <<>> THEN <<>>
    ELSE <<Head(queue)>>
         \o BreadthFirst(ns, k, Tail(queue) \o ChildNodes(ns, k, Head(queue), 0))

\* tree.depth_first_iter(order), collected
depth_first_iter(ns, k, order) ==
    IF root(ns) = NoNode THEN <<>>
    ELSE IF order = "PreOrder" THEN DepthFirstPreOrder(ns, k, root(ns))
         ELSE DepthFirstPostOrder(ns, k, root(ns))

\* tree.breadth_first_iter(), collected
breadth_first_iter(ns, k) ==
    IF root(ns) = NoNode THEN <<>>
    ELSE BreadthFirst(ns, k, <<root(ns)>>)

DepthFirstOrders == {"PreOrder", "PostOrder"}

Iterating(kind, order, out) == [kind |-> kind, order |-> order, out |-> out]

\* tree.depth_first_iter(order) run to its end: needs the tree unborrowed
DepthFirstIter(order) ==
    /\ walk = NoWalk
    /\ iter = NoIter
    /\ handles = <<>>
    /\ iter' = Iterating("depth_first", order,
                         depth_first_iter(nodes, max_children_per_node, order))
    /\ UNCHANGED <<treeVars, handles, last, walk, calc>>

\* tree.breadth_first_iter() run to its end: needs the tree unborrowed
BreadthFirstIter ==
    /\ walk = NoWalk
    /\ iter = NoIter
    /\ handles = <<>>
    /\ iter' = Iterating("breadth_first", "none",
                         breadth_first_iter(nodes, max_children_per_node))
    /\ UNCHANGED <<treeVars, handles, last, walk, calc>>

\* the iterator is dropped
IterEnd ==
    /\ iter # NoIter
    /\ iter' = NoIter
    /\ UNCHANGED <<treeVars, handles, last, walk, calc>>

\* the tree the tests build with branching factor 2: root = 5, (0) = 2,
\* (0,0) = 1, (0,1) = 4, (0,1,0) = 3, (1) = 7, (1,1) = 8
TestTree ==
    LET root_ == set_value(<<None>>, 2, 0, 0, 5)
        left == set_child_value(root_.nodes, 2, root_.len, root_.handle, 0, 2)
        left_left == set_child_value(left.nodes, 2, left.len, left.handle, 0, 1)
        left_right == set_child_value(left_left.nodes, 2, left_left.len,
                                      left.handle, 1, 4)
        left_right_left == set_child_value(left_right.nodes, 2, left_right.len,
                                           left_right.handle, 0, 3)
        right == set_child_value(left_right_left.nodes, 2, left_right_left.len,
                                 root_.handle, 1, 7)
        right_right == set_child_value(right.nodes, 2, right.len,
                                       right.handle, 1, 8)
    IN [nodes |-> right_right.nodes, len |-> right_right.len]

\* the tests' tree is built on a fresh tree and its handles go out of scope
BuildTestTree ==
    /\ walk = NoWalk
    /\ iter = NoIter
    /\ handles = <<>>
    /\ max_children_per_node = 2
    /\ nodes = <<None>>
    /\ len = 0
    /\ nodes' = TestTree.nodes
    /\ len' = TestTree.len
    /\ last' = Op("test_tree", NoIndex, None, NoIndex, "ok", NoNode)
    /\ UNCHANGED <<max_children_per_node, handles, walk, calc, iter>>

NextIter ==
    \/ Next
    \/ BuildTestTree
    \/ \E order \in DepthFirstOrders : DepthFirstIter(order)
    \/ BreadthFirstIter
    \/ IterEnd

SpecIter == Init /\ [][NextIter]_vars

\* ----------------------------------------------------------------- claims
K == max_children_per_node

Occupied(ns, index) == Get(ns, index) # None

OccupiedSlots(ns) == {i \in 0..(Len(ns) - 1) : ns[i + 1] # None}

\* d lies strictly below a in the layout of branching factor k
RECURSIVE IsDescendant(_, _, _)
IsDescendant(k, d, a) ==
    /\ d > a
    /\ \/ parent_index(k, d) = a
       \/ IsDescendant(k, parent_index(k, d), a)

OccupiedDescendants(ns, k, a) ==
    {d \in OccupiedSlots(ns) : IsDescendant(k, d, a)}

\* the positions whose contents a step can be asked about
Positions == 0..(IF Len(nodes) > MaxIndex THEN Len(nodes) ELSE MaxIndex)

WritesAbsence(l) ==
    /\ l.op \in {"set_root_value", "set_child_value", "remove"}
    /\ l.result = "ok"
    /\ l.value = None

WritesPresent(l) ==
    /\ l.op \in {"set_root_value", "set_child_value"}
    /\ l.result = "ok"
    /\ l.value # None

\* C1: len() equals the number of slots of the backing array that hold a
\* value, after any sequence of writes, removals and clears.
LenCountsOccupiedSlots == len = Cardinality(OccupiedSlots(nodes))

LenCountsOccupiedSlotsWitness ==
    /\ last.op = "remove"
    /\ len >= 1
    /\ Len(nodes) >= 3

\* C2: every non-root slot that holds a value has a parent slot that holds
\* a value.
OccupiedSlotHasOccupiedParent ==
    \A i \in OccupiedSlots(nodes) :
        i # 0 => Occupied(nodes, parent_index(K, i))

\* C3: writing absence to an occupied position with occupied descendants
\* lowers len() by 1 plus the number of occupied descendants, leaves every
\* descendant absent and every other position as it was.
AbsenceClearsWholeSubtree ==
    [][(/\ WritesAbsence(last')
        /\ Occupied(nodes, last'.target)
        /\ OccupiedDescendants(nodes, K, last'.target) # {})
       => (/\ len' = len - (1 + Cardinality(
                                  OccupiedDescendants(nodes, K, last'.target)))
           /\ \A d \in 0..(Len(nodes') - 1) :
                  IsDescendant(K, d, last'.target) => Get(nodes', d) = None
           /\ \A i \in Positions :
                  (i # last'.target /\ ~IsDescendant(K, i, last'.target))
                  => Get(nodes', i) = Get(nodes, i))]_vars

\* C6: every Node or NodeMut handle an operation produces refers to a slot
\* that holds a value when it is produced.
ProducedHandleIsOccupied ==
    last.handle # NoNode => Occupied(nodes, last.handle)

\* C8: a direct-child lookup with a child slot c >= K fails with a range
\* error and yields neither a position nor a node.
ChildLookupOutOfRangeFails ==
    (last.op = "child" /\ last.child >= K)
    => (last.result = "range_error" /\ last.target = NoIndex
        /\ last.handle = NoNode)

\* C9: set_child_value with c >= max_children_per_node fails with a range
\* error and leaves the array and len() as they were.
SetChildValueOutOfRangeFails ==
    [][(last'.op = "set_child_value" /\ last'.child >= K)
       => (/\ last'.result = "range_error"
           /\ last'.handle = NoNode
           /\ nodes' = nodes
           /\ len' = len)]_vars

SetChildValueOutOfRangeFailsWitness ==
    /\ last.op = "set_child_value"
    /\ last.child >= K
    /\ last.result = "range_error"
    /\ len >= 2

\* C10: writing a present value v makes the target slot hold v, raises
\* len() by one exactly when the slot was absent, and leaves every other
\* slot as it was; set_root_value(v) on a fresh tree gives len() = 1 and
\* root().value() = root_mut().value() = v.
PresentWriteSetsOnlyTarget ==
    [][WritesPresent(last')
       => (/\ Get(nodes', last'.target) = last'.value
           /\ len' = (IF Occupied(nodes, last'.target) THEN len ELSE len + 1)
           /\ \A i \in Positions :
                  i # last'.target => Get(nodes', i) = Get(nodes, i)
           /\ last'.op = "set_root_value"
              => (/\ node(nodes', 0) = 0
                  /\ node_mut(nodes', 0) = 0
                  /\ value(nodes', 0) = last'.value
                  /\ (nodes = <<None>> /\ len = 0) => len' = 1))]_vars

\* a present value was written over an occupied slot that has an occupied child
PresentWriteSetsOnlyTargetWitness ==
    /\ WritesPresent(last)
    /\ last.op = "set_child_value"
    /\ len = 3
    /\ Cardinality(OccupiedSlots(nodes)) = 3
    /\ OccupiedDescendants(nodes, K, last.target) # {}

\* C4: when the exclusive walk returns, the handle it returns is at the
\* position the walk started from, whatever the handler answered.
WalkMutReturnsToStart ==
    (walk.kind = "mut" /\ walk.pc = "returned")
    => walk.current.pos = walk.start.pos

\* the walk returned after the handler stopped it two levels below the start
WalkMutReturnsToStartWitness ==
    /\ walk.kind = "mut"
    /\ walk.pc = "returned"
    /\ walk.levels >= 2
    /\ walk.action = Stop

\* C5: in the shared walk a Parent answer moves to the parent of the entry
\* just shown to the handler if it has one, and ends the walk otherwise.
WalkParentMovesToParentOfCurrent ==
    [][(walk.kind = "shared" /\ walk.pc = "handler"
        /\ walk'.kind = "shared" /\ walk'.action = Parent)
       => IF entry_parent(nodes, K, walk.current) # NoNode
          THEN /\ walk'.pc = "handler"
               /\ walk'.current.pos = parent_index(K, walk.current.pos)
          ELSE walk'.pc = "returned"]_vars

\* C7: child_index and parent_index are inverse to each other: the parent
\* of child c of p is p and its slot is c; a position i > 0 is child
\* (i - 1) mod K of its parent; the root has no parent.
IndexRoundTrip ==
    /\ (calc.fn = "child_index" /\ calc.child < K)
       => /\ parent_index(K, calc.out) = calc.parent
          /\ (calc.out - 1) % K = calc.child
    /\ (calc.fn = "parent_index" /\ calc.child > 0)
       => child_index(K, calc.out, (calc.child - 1) % K) = calc.child
    /\ (calc.fn = "parent_index" /\ calc.child = 0)
       => calc.out = NoIndex

IndexRoundTripWitness ==
    /\ K >= 2
    /\ calc.fn = "child_index"
    /\ calc.parent >= 2
    /\ calc.child = K - 1

\* C11: a freshly constructed tree is empty, with len() = 0 and no root;
\* clear() restores that state after any sequence of operations: one absent
\* root slot, len() = 0, max_children_per_node as it was.
FreshAndClearedTreeIsEmpty ==
    /\ (is_empty(len) /\ len = 0 /\ nodes = <<None>>
        /\ root(nodes) = NoNode /\ root_mut(nodes) = NoNode)
    /\ [][last'.op = "clear"
          => (/\ nodes' = <<None>>
              /\ len' = 0
              /\ is_empty(len')
              /\ root(nodes') = NoNode
              /\ root_mut(nodes') = NoNode
              /\ max_children_per_node' = max_children_per_node)]_vars

FreshAndClearedTreeIsEmptyWitness ==
    /\ last.op = "clear"
    /\ nodes = <<None>>
    /\ len = 0

Writes(l) ==
    /\ l.op \in {"set_root_value", "set_child_value", "remove"}
    /\ l.result = "ok"

\* C17 as stated: the array has at least one slot, only clear() shortens
\* it, writing absence leaves its length unchanged and only empties
\* slots, and a write past its end grows it to the position written plus one.
ArrayLengthUnchangedByAbsence ==
    [][/\ Len(nodes') >= 1
       /\ last'.op # "clear" => Len(nodes') >= Len(nodes)
       /\ WritesAbsence(last')
          => (/\ Len(nodes') = Len(nodes)
              /\ \A i \in Positions : Get(nodes', i) \in {Get(nodes, i), None})
       /\ (Writes(last') /\ last'.target >= Len(nodes))
          => Len(nodes') = last'.target + 1]_vars

\* C17 amended: the array has at least one slot, only clear() shortens it,
\* writing absence at a position inside the array leaves its length
\* unchanged, writing absence only empties slots, and any write past the
\* end, of a value or of absence, grows it to the position written plus one.
ArrayLengthGrowsOnlyToWrittenPosition ==
    [][/\ Len(nodes') >= 1
       /\ last'.op # "clear" => Len(nodes') >= Len(nodes)
       /\ WritesAbsence(last')
          => (/\ last'.target < Len(nodes) => Len(nodes') = Len(nodes)
              /\ \A i \in Positions : Get(nodes', i) \in {Get(nodes, i), None})
       /\ (Writes(last') /\ last'.target >= Len(nodes))
          => Len(nodes') = last'.target + 1]_vars

\* a removal emptied the whole tree and the array kept its slots
ArrayLengthGrowsOnlyToWrittenPositionWitness ==
    /\ last.op = "remove"
    /\ len = 0
    /\ Len(nodes) >= 3

\* the depth of a position: the number of moves to the parent up to the root
RECURSIVE Depth(_, _)
Depth(k, p) == IF p = 0 THEN 0 ELSE 1 + Depth(k, parent_index(k, p))

\* C14: whenever the handler of the exclusive walk is invoked, the current
\* entry is the start or below it and levels is the depth of the current
\* position minus the depth of the start; Parent at levels = 0 ends the loop
\* without moving, so no position above the start is shown or returned.
WalkMutStaysBelowStart ==
    /\ [](walk.kind = "mut"
          => /\ \/ walk.current.pos = walk.start.pos
                \/ IsDescendant(K, walk.current.pos, walk.start.pos)
             /\ walk.pc = "handler"
                => walk.levels = Depth(K, walk.current.pos)
                                 - Depth(K, walk.start.pos)
             /\ walk.pc = "returned"
                => Depth(K, walk.current.pos) >= Depth(K, walk.start.pos))
    /\ [][(/\ walk.kind = "mut" /\ walk.pc = "handler" /\ walk.levels = 0
           /\ walk'.kind = "mut" /\ walk' # walk /\ walk'.pc # "unwound"
           /\ walk'.action = Parent)
          => (walk'.pc = "returned" /\ walk'.current = walk.current)]_vars

\* Parent was answered at the start of a walk begun below an occupied parent
WalkMutStaysBelowStartWitness ==
    /\ walk.kind = "mut"
    /\ walk.pc = "returned"
    /\ walk.action = Parent
    /\ walk.levels = 0
    /\ walk.start.pos # 0
    /\ Occupied(nodes, parent_index(K, walk.start.pos))

\* C15: every one of the levels moves to the parent made after the handler
\* loop succeeds: the exclusive walk never fails its "should have a parent"
\* expectation.
WalkMutAscentNeverFails ==
    walk.kind = "mut" => walk.pc # "panicked"

\* C16: in the shared walk Child(c), c a child slot (c < K), on an Occupied
\* entry moves to the entry at child_index(current, c), Occupied exactly if
\* that slot holds a value, and the walk goes on; an index that is no child
\* slot is a range error and moves nowhere; Child(c) on a Vacant entry and
\* Stop end the walk; the walk leaves the tree as it is.
WalkChildMovesToChildEntry ==
    [][(/\ walk.kind = "shared" /\ walk.pc = "handler"
        /\ walk'.kind = "shared" /\ walk' # walk)
       => (/\ treeVars' = treeVars
           /\ walk'.action.tag = "Stop" => walk'.pc = "returned"
           /\ walk'.action.tag = "Child"
              => IF ~walk.current.occupied
                 THEN /\ walk'.pc = "returned"
                      /\ walk'.current = walk.current
                 ELSE IF walk'.action.index < K
                      THEN /\ walk'.pc = "handler"
                           /\ walk'.current.pos =
                                  child_index(K, walk.current.pos,
                                              walk'.action.index)
                           /\ walk'.current.occupied =
                                  Occupied(nodes, walk'.current.pos)
                      ELSE /\ walk'.pc = "unwound"
                           /\ walk'.current = walk.current)]_vars

\* the walk ended on a Child answer given at a vacant entry below the start
WalkChildMovesToChildEntryWitness ==
    /\ walk.kind = "shared"
    /\ walk.pc = "returned"
    /\ walk.action.tag = "Child"
    /\ ~walk.current.occupied
    /\ walk.current.pos # walk.start.pos
    /\ walk.start.occupied

\* C19: a shared walk started at depth d whose handler always answers
\* Parent has ended once the handler was invoked d + 1 times.
WalkAlwaysParentTerminates ==
    (walk.kind = "shared" /\ walk.parents # NoCount)
    => /\ walk.parents <= Depth(K, walk.start.pos) + 1
       /\ walk.parents = Depth(K, walk.start.pos) + 1 => walk.pc = "returned"

\* the child slots on the way from the root to a position
RECURSIVE Path(_, _)
Path(k, p) ==
    IF p = 0 THEN <<>>
    ELSE Append(Path(k, parent_index(k, p)), (p - 1) % k)

\* a and b part ways at some node, a into a lower child slot than b
LowerBranch(a, b) ==
    \E n \in 1..Len(a) :
        /\ n <= Len(b)
        /\ SubSeq(a, 1, n - 1) = SubSeq(b, 1, n - 1)
        /\ a[n] < b[n]

\* occupied and joined to the root by occupied positions
RECURSIVE Reachable(_, _, _)
Reachable(ns, k, p) ==
    /\ Occupied(ns, p)
    /\ p = 0 \/ Reachable(ns, k, parent_index(k, p))

ValuesAt(ns, out) == [i \in DOMAIN out |-> ns[out[i] + 1]]

Yielded(out) == {out[i] : i \in DOMAIN out}

\* C12: pre-order yields a node before each of its descendants, post-order
\* after all of them, both take the children's subtrees in increasing slot
\* order, yield no vacant position and nothing on an empty tree; on the
\* tests' tree they yield 5,2,1,4,3,7,8 and 1,3,4,2,8,7,5.
DepthFirstOrder ==
    iter.kind = "depth_first"
    => /\ root(nodes) = NoNode => iter.out = <<>>
       /\ \A i \in DOMAIN iter.out : Occupied(nodes, iter.out[i])
       /\ \A p \in OccupiedSlots(nodes) :
              Reachable(nodes, K, p) => p \in Yielded(iter.out)
       /\ \A i, j \in DOMAIN iter.out :
              IsDescendant(K, iter.out[j], iter.out[i])
              => IF iter.order = "PreOrder" THEN i < j ELSE j < i
       /\ \A i, j \in DOMAIN iter.out :
              (/\ i < j
               /\ ~IsDescendant(K, iter.out[j], iter.out[i])
               /\ ~IsDescendant(K, iter.out[i], iter.out[j]))
              => LowerBranch(Path(K, iter.out[i]), Path(K, iter.out[j]))
       /\ (nodes = TestTree.nodes /\ K = 2)
          => ValuesAt(nodes, iter.out) =
                 IF iter.order = "PreOrder" THEN <<5, 2, 1, 4, 3, 7, 8>>
                 ELSE <<1, 3, 4, 2, 8, 7, 5>>

DepthFirstOrderWitness ==
    /\ iter.kind = "depth_first"
    /\ iter.order = "PostOrder"
    /\ nodes = TestTree.nodes
    /\ Len(iter.out) = 7

\* C13: breadth-first yields the nodes by non-decreasing depth and, within
\* a depth, by increasing position, no vacant position and nothing on an
\* empty tree; on the tests' tree it yields 5,2,7,1,4,8,3.
BreadthFirstOrder ==
    iter.kind = "breadth_first"
    => /\ root(nodes) = NoNode => iter.out = <<>>
       /\ \A i \in DOMAIN iter.out : Occupied(nodes, iter.out[i])
       /\ \A p \in OccupiedSlots(nodes) :
              Reachable(nodes, K, p) => p \in Yielded(iter.out)
       /\ \A i, j \in DOMAIN iter.out :
              i < j
              => \/ Depth(K, iter.out[i]) < Depth(K, iter.out[j])
                 \/ /\ Depth(K, iter.out[i]) = Depth(K, iter.out[j])
                    /\ iter.out[i] < iter.out[j]
       /\ (nodes = TestTree.nodes /\ K = 2)
          => ValuesAt(nodes, iter.out) = <<5, 2, 7, 1, 4, 8, 3>>

BreadthFirstOrderWitness ==
    /\ iter.kind = "breadth_first"
    /\ nodes = TestTree.nodes
    /\ Len(iter.out) = 7

\* C18: each iterator yields len() nodes, and is_empty() is true exactly
\* when root() is absent.
IteratorsYieldLenNodes ==
    /\ iter # NoIter => Len(iter.out) = len
    /\ is_empty(len) <=> root(nodes) = NoNode

====
